---- MODULE Spec2Model ----
(***************************************************************************)
(* Model of the ECS scheduler (scheduler/ecs/ecs.go) and of the ELB load   *)
(* balancer manager (pkg/lb).  The container-scheduling and load-balancing *)
(* backends are the only shared state; every backend call is one step.     *)
(***************************************************************************)
EXTENDS Integers, Sequences, FiniteSets, TLC

VARIABLES services, taskDefs, tasks, faults, frame, pure, elbs, lbf

vars == <<services, taskDefs, tasks, faults, frame, pure, elbs, lbf>>

(***************************************************************************)
(* Bounds and input sets                                                   *)
(***************************************************************************)
MaxProcs == 2
MaxInstances == 2
MaxLen == 3
MaxCalls == 2

Types == {"web", "worker", "clock"}
TypeOrder == <<"web", "worker", "clock">>
Callers == {1, 2}

Range(s) == {s[i] : i \in 1..Len(s)}
Perms(S) == {s \in [1..Cardinality(S) -> S] : Range(s) = S}

(***************************************************************************)
(* Errors.  An error value carries whether it is an awserr.Error and its   *)
(* message; NoErr is the nil error.                                        *)
(***************************************************************************)
NoErr == [aws |-> FALSE, msg |-> "nil"]
AwsErr(m) == [aws |-> TRUE, msg |-> m]
PlainErr(m) == [aws |-> FALSE, msg |-> m]

MsgNotActive == "Service was not ACTIVE."
MsgCMNotActive == "Could not find returned type com.amazon.madison.cmb#CMServiceNotActiveException in model"
MsgCMNotFound == "Could not find returned type com.amazon.madison.cmb#CMServiceNotFoundException in model"
MsgNotFound == "Service not found."
NoServiceMsgs == {MsgNotActive, MsgCMNotActive, MsgCMNotFound, MsgNotFound}

\* noService without the CMServiceNotActiveException message.
noServiceThree(err) ==
    IF err.aws
    THEN \/ err.msg = MsgNotActive
         \/ err.msg = MsgCMNotFound
         \/ err.msg = MsgNotFound
    ELSE FALSE

noService(err) ==
    IF err.aws
    THEN \/ err.msg = MsgNotActive
         \/ err.msg = MsgCMNotActive
         \/ err.msg = MsgCMNotFound
         \/ err.msg = MsgNotFound
    ELSE FALSE

\* Errors a call may return whatever the backend's state, when the run is one
\* with failing calls (faults).
Transient == IF faults THEN {AwsErr("ThrottlingException"), PlainErr("request canceled")} ELSE {}
\* The backend's reports of a missing or inactive service.
NotFoundErrs == {AwsErr(m) : m \in NoServiceMsgs}

(***************************************************************************)
(* Processes and task definitions                                          *)
(***************************************************************************)
MB == 1024 * 1024

NoTaskDef == [Family |-> "", ContainerDefinitions |-> <<>>]

\* The configuration of the process manager.
serviceRole == "ecsServiceRole"

\* A command is the sequence of its characters.
Space == " "
Quote == "\""

\* A Process with the zero value in every field but Type and Instances.
\* Load balancer names are numbers; 0 is the empty name.
Process(t, n) ==
    [Type |-> t, Instances |-> n, Command |-> <<>>, Env |-> [k \in {} |-> ""],
     CPUShares |-> 0, MemoryLimit |-> 0, Ports |-> <<>>, LoadBalancer |-> 0]

PortMap(host, container) == [Host |-> host, Container |-> container]

\* shellwords.Parse on a line of letters, spaces and double quotes: args,
\* buf and doubleQuoted are the parser's state before the i-th character.
RECURSIVE ParseFrom(_, _, _, _, _)
ParseFrom(line, i, args, buf, doubleQuoted) ==
    IF i > Len(line)
    THEN IF doubleQuoted
         THEN [args |-> <<>>, err |-> PlainErr("invalid command line string")]
         ELSE [args |-> IF buf # <<>> THEN Append(args, buf) ELSE args, err |-> NoErr]
    ELSE IF line[i] = Space
         THEN IF doubleQuoted
              THEN ParseFrom(line, i + 1, args, Append(buf, line[i]), doubleQuoted)
              ELSE IF buf # <<>>
                   THEN ParseFrom(line, i + 1, Append(args, buf), <<>>, doubleQuoted)
                   ELSE ParseFrom(line, i + 1, args, buf, doubleQuoted)
         ELSE IF line[i] = Quote
              THEN ParseFrom(line, i + 1, args, buf, ~doubleQuoted)
              ELSE ParseFrom(line, i + 1, args, Append(buf, line[i]), doubleQuoted)

Parse(line) == ParseFrom(line, 1, <<>>, <<>>, FALSE)

\* strings.Join(a, sep)
RECURSIVE Join(_, _)
Join(a, sep) ==
    IF Len(a) = 0 THEN <<>>
    ELSE IF Len(a) = 1 THEN a[1]
    ELSE a[1] \o <<sep>> \o Join(Tail(a), sep)

InstanceChoices(t) == IF t = "web" THEN 1..MaxInstances ELSE {1}

\* Declarations: at most MaxProcs processes, types unique within the app.
Apps ==
    {a \in UNION {[1..n -> {Process(t, i) : t \in Types, i \in 1..MaxInstances}] : n \in 0..MaxProcs} :
        /\ \A i \in 1..Len(a) : a[i].Instances \in InstanceChoices(a[i].Type)
        /\ \A i, j \in 1..Len(a) : i # j => a[i].Type # a[j].Type}

\* The results taskDefinitionInput can return: the environment is listed in
\* the order the iteration over the map p.Env happens to take.
taskDefinitionInput(p) ==
    LET r == Parse(p.Command)
        ports == [i \in 1..Len(p.Ports) |->
                     [ContainerPort |-> p.Ports[i].Container, HostPort |-> p.Ports[i].Host]]
        environment(o) == [i \in 1..Len(o) |-> [Name |-> o[i], Value |-> p.Env[o[i]]]]
    IN  IF r.err # NoErr
        THEN {[in |-> NoTaskDef, err |-> r.err]}
        ELSE {[in |-> [Family |-> p.Type,
                       ContainerDefinitions |->
                           <<[Name |-> p.Type,
                              Cpu |-> p.CPUShares,
                              Command |-> r.args,
                              Memory |-> p.MemoryLimit \div MB,
                              Environment |-> environment(o),
                              PortMappings |-> ports]>>],
               err |-> NoErr] : o \in Perms(DOMAIN p.Env)}

\* taskDefinitionToProcess counting a megabyte as 1000 * 1000 bytes.
taskDefinitionToProcessDecimal(td) ==
    IF Len(td.ContainerDefinitions) = 0
    THEN [p |-> Process("", 0), err |-> PlainErr("task definition had no container definitions")]
    ELSE LET container == td.ContainerDefinitions[1]
             kvp == container.Environment
         IN  [p |-> [Process(container.Name, 0) EXCEPT
                        !.Command = Join(container.Command, Space),
                        !.Env = [k \in {kvp[i].Name : i \in 1..Len(kvp)} |->
                                    kvp[CHOOSE i \in 1..Len(kvp) : kvp[i].Name = k].Value],
                        !.CPUShares = container.Cpu,
                        !.MemoryLimit = container.Memory * (1000 * 1000)],
              err |-> NoErr]

taskDefinitionToProcess(td) ==
    IF Len(td.ContainerDefinitions) = 0
    THEN [p |-> Process("", 0), err |-> PlainErr("task definition had no container definitions")]
    ELSE LET container == td.ContainerDefinitions[1]
             kvp == container.Environment
             env == [k \in {kvp[i].Name : i \in 1..Len(kvp)} |->
                        kvp[CHOOSE i \in 1..Len(kvp) :
                                /\ kvp[i].Name = k
                                /\ \A j \in 1..Len(kvp) : kvp[j].Name = k => j <= i].Value]
         IN  [p |-> [Process(container.Name, 0) EXCEPT
                        !.Command = Join(container.Command, Space),
                        !.Env = env,
                        !.CPUShares = container.Cpu,
                        !.MemoryLimit = container.Memory * MB],
              err |-> NoErr]

processTypes(processes) == {processes[i].Type : i \in 1..Len(processes)}

\* diffProcessTypes with its arguments taken the wrong way round.
diffProcessTypesSwapped(old, new) ==
    LET om == processTypes(new)
        nm == processTypes(old)
        keep(t) == t \notin nm
    IN  {SelectSeq(o, keep) : o \in Perms(om)}

\* diffProcessTypes without the test against new.
diffProcessTypesAll(old, new) == Perms(processTypes(old))

\* diffProcessTypes ranging over the list old instead of the map om.
diffProcessTypesList(old, new) ==
    LET nm == processTypes(new)
        keep(t) == t \notin nm
    IN  {SelectSeq([i \in 1..Len(old) |-> old[i].Type], keep)}

\* diffProcessTypes taking every known type that new does not declare.
diffProcessTypesOthers(old, new) ==
    LET nm == processTypes(new)
        keep(t) == t \notin nm
    IN  {SelectSeq(o, keep) : o \in Perms(Types)}

\* The results diffProcessTypes can return: the types of old that are not in
\* new, in the order the iteration over the map om happens to take.
diffProcessTypes(old, new) ==
    LET om == processTypes(old)
        nm == processTypes(new)
        keep(t) == t \notin nm
    IN  {SelectSeq(o, keep) : o \in Perms(om)}

(***************************************************************************)
(* The container-scheduling backend                                        *)
(***************************************************************************)
NoSvc == [status |-> "NONE", desiredCount |-> 0, taskDefinition |-> "",
          loadBalancers |-> <<>>, role |-> ""]

\* The tasks of the cluster, by instance id.
InstanceIDs == {"task-1", "task-2"}
AllRunning == [i \in InstanceIDs |-> "RUNNING"]

ActiveTypes == {t \in Types : services[t].status = "ACTIVE"}

ListServices == SelectSeq(TypeOrder, LAMBDA t : services[t].status = "ACTIVE")

UpdateResponses(t) ==
    IF services[t].status = "ACTIVE"
    THEN {NoErr} \cup Transient
    ELSE NotFoundErrs \cup Transient

\* td = "" stands for an UpdateServiceInput without TaskDefinition.
ApplyUpdate(t, n, td) ==
    [services EXCEPT ![t] = [@ EXCEPT !.desiredCount = n,
                                      !.taskDefinition = IF td = "" THEN @ ELSE td]]

CreateResponses(t) ==
    IF services[t].status = "ACTIVE"
    THEN {AwsErr("InvalidParameterException")} \cup Transient
    ELSE {NoErr} \cup Transient

ApplyCreate(t, n, td, loadBalancers, role) ==
    [services EXCEPT ![t] = [status |-> "ACTIVE", desiredCount |-> n, taskDefinition |-> td,
                             loadBalancers |-> loadBalancers, role |-> role]]

DeleteResponses(t) ==
    IF services[t].status = "ACTIVE"
    THEN IF services[t].desiredCount = 0
         THEN {NoErr} \cup Transient
         ELSE {AwsErr("InvalidParameterException")} \cup Transient
    ELSE NotFoundErrs \cup Transient

ApplyDelete(t) ==
    [services EXCEPT ![t] = [@ EXCEPT !.status = "INACTIVE"]]

(***************************************************************************)
(* The ELB manager (pkg/lb) and the load-balancing backend                 *)
(***************************************************************************)
MaxLBs == 2
PageSize == 20
defaultConnectionDrainingTimeout == 30

schemeInternal == "internal"
schemeExternal == "internet-facing"

\* The configuration of the ELBManager.
InternalSecurityGroupID == "sg-internal"
ExternalSecurityGroupID == "sg-external"
InternalSubnetIDs == <<"subnet-int">>
ExternalSubnetIDs == <<"subnet-ext">>

EmptyTags == [k \in {} |-> ""]

\* The CreateLoadBalancerOpts the callers pass.
CreateOpts ==
    {[External |-> FALSE, InstancePort |-> 8080, SSLCert |-> "",
      Tags |-> ("AppID" :> "acme") @@ ("ProcessType" :> "web")],
     [External |-> TRUE, InstancePort |-> 9000, SSLCert |-> "cert",
      Tags |-> ("AppID" :> "acme") @@ ("ProcessType" :> "worker")],
     [External |-> FALSE, InstancePort |-> 8080, SSLCert |-> "",
      Tags |-> ("AppID" :> "other")]}

\* The tag filters the callers pass to LoadBalancers.
Filters ==
    {EmptyTags,
     ("AppID" :> "acme"),
     ("ProcessType" :> "web"),
     ("AppID" :> "acme") @@ ("ProcessType" :> "worker"),
     ("AppID" :> "web")}

\* elbListeners requesting the HTTPS listener whatever the certificate.
elbListenersAlwaysHttps(port, certID) ==
    <<[InstancePort |-> port, LoadBalancerPort |-> 80, SSLCertificateId |-> "",
       Protocol |-> "http", InstanceProtocol |-> "http"],
      [InstancePort |-> port, LoadBalancerPort |-> 443, SSLCertificateId |-> certID,
       Protocol |-> "https", InstanceProtocol |-> "http"]>>

elbListeners(port, certID) ==
    LET http ==[InstancePort |-> port, LoadBalancerPort |-> 80, SSLCertificateId |-> "",
                 Protocol |-> "http", InstanceProtocol |-> "http"]
        https == [InstancePort |-> port, LoadBalancerPort |-> 443, SSLCertificateId |-> certID,
                  Protocol |-> "https", InstanceProtocol |-> "http"]
    IN  IF certID # "" THEN <<http, https>> ELSE <<http>>

elbTag(k, v) == [Key |-> k, Value |-> v]

\* The lists elbTags can return: one tag per key, in map order.
elbTags(tags) ==
    {[i \in 1..Len(o) |-> elbTag(o[i], tags[o[i]])] : o \in Perms(DOMAIN tags)}

mapTags(tags) ==
    [k \in {tags[i].Key : i \in 1..Len(tags)} |->
        tags[CHOOSE i \in 1..Len(tags) :
                /\ tags[i].Key = k
                /\ \A j \in 1..Len(tags) : tags[j].Key = k => j <= i].Value]

\* containsTag comparing the keys only.
containsTagKeyOnly(t, tags) ==
    \E i \in 1..Len(tags) : t.Key = tags[i].Key

containsTag(t, tags) ==
    \E i \in 1..Len(tags) : t.Key = tags[i].Key /\ t.Value = tags[i].Value

containsTags(a, b) ==
    \A k \in DOMAIN a : containsTag(elbTag(k, a[k]), b)

\* Continuation markers: nil, the empty string (s = 0), or the index of the
\* load balancer the next page starts with.
NilMarker == [nil |-> TRUE, s |-> 0]
EmptyMarker == [nil |-> FALSE, s |-> 0]
Marker(i) == [nil |-> FALSE, s |-> i]
EndMarkers == {NilMarker, EmptyMarker}

Min(a, b) == IF a < b THEN a ELSE b

\* The pages DescribeLoadBalancers may answer a request with: at most
\* pageSize descriptions from the marker on, with the marker of the rest.
Pages(marker, pageSize) ==
    LET start == IF marker \in EndMarkers THEN 1 ELSE marker.s
        rest == Len(elbs) - start + 1
        next(n) == IF n = rest THEN EndMarkers ELSE {Marker(start + n)}
    IN  UNION {{[LoadBalancerDescriptions |-> SubSeq(elbs, start, start + n - 1),
                 NextMarker |-> m] : m \in next(n)} :
                    n \in 0..Min(pageSize, rest)}

\* DescribeTags: the tags of the named load balancers.
TagDescriptions(names) ==
    [i \in 1..Len(names) |->
        LET d == elbs[CHOOSE j \in 1..Len(elbs) : elbs[j].LoadBalancerName = names[i]]
        IN  [LoadBalancerName |-> names[i], Tags |-> d.Tags]]

\* A name that no load balancer of the backend carries.
newName ==
    LET used == {elbs[i].LoadBalancerName : i \in 1..Len(elbs)}
    IN  CHOOSE n \in 1..(Len(elbs) + 1) : n \notin used /\ \A m \in 1..(n - 1) : m \in used

NoLB == [Name |-> 0, DNSName |-> 0, External |-> FALSE, SSLCert |-> "",
         InstancePort |-> 0, Tags |-> EmptyTags]

NoPage == [LoadBalancerDescriptions |-> <<>>, NextMarker |-> NilMarker]

\* op, pc: the operation in progress and its position; o, tags: its
\* arguments; nextMarker, out, lbs: the locals of LoadBalancers; name: the
\* LoadBalancerName of the create input; ret, lb: what the operation
\* returned; pages: the pages LoadBalancers has read; acc: the matching
\* load balancers of the pages it has read to their end; retry: the call
\* repeats the caller's previous CreateLoadBalancer, whose attribute
\* update failed.
IdleLB ==
    [op |-> "idle", pc |-> "idle", o |-> NoLB, tags |-> EmptyTags,
     nextMarker |-> NilMarker, out |-> NoPage, lbs |-> <<>>, name |-> 0,
     ret |-> NoErr, lb |-> NoLB, pages |-> 0, failedAt |-> "",
     acc |-> <<>>, retry |-> FALSE]

ReturnLB(f, lbs, e) == [f EXCEPT !.pc = "done", !.lbs = lbs, !.ret = e, !.failedAt = f.pc]

(***************************************************************************)
(* Call frames: one per caller                                             *)
(***************************************************************************)
\* op, pc: the operation in progress and its position; app, arg: its
\* arguments; arns, desc, processes, k, toRemove: its locals; ret: the error
\* it returned; lastErr: the answer of the last backend call; calls: the
\* calls it issued; pre: the provisioned types when it was called; repeat:
\* it repeats the caller's previous, successful operation; n: the calls the
\* caller has made, counted up to MaxCalls.
IdleFrame ==
    [op |-> "idle", pc |-> "idle", n |-> 0, app |-> <<>>, arg |-> "", k |-> 1,
     arns |-> <<>>, desc |-> <<>>, processes |-> <<>>, toRemove |-> <<>>,
     ret |-> NoErr, lastErr |-> NoErr, failedAt |-> "", calls |-> <<>>,
     repeat |-> FALSE, pre |-> {}]

Ev(call, arg) == [call |-> call, arg |-> arg]

\* The frame of a new call by the caller whose last frame is f.
NewFrame(f) == [IdleFrame EXCEPT !.n = IF f.n < MaxCalls THEN f.n + 1 ELSE f.n,
                                 !.pre = ActiveTypes]

Return(f, e) == [f EXCEPT !.pc = "done", !.ret = e, !.failedAt = f.pc]

Finish(f) == [f EXCEPT !.pc = "done", !.ret = NoErr]

Repeats(f, op, a, t) ==
    /\ f.op = op
    /\ f.pc = "done"
    /\ f.ret = NoErr
    /\ f.app = a
    /\ f.arg = t

NoPure == [old |-> <<>>, new |-> <<>>, types |-> <<>>, done |-> FALSE]

Init ==
    /\ services = [t \in Types |-> NoSvc]
    /\ taskDefs = [t \in Types |-> NoTaskDef]
    /\ faults = TRUE
    /\ frame = [c \in Callers |-> IdleFrame]
    /\ pure = NoPure
    /\ elbs = <<>>
    /\ lbf = IdleLB
    /\ tasks = AllRunning

(***************************************************************************)
(* Operations of the Scheduler and of ecsProcessManager                    *)
(***************************************************************************)
NextCreatePC(a, k) == IF k <= Len(a) THEN "register" ELSE "diff"

\* Where the caller of Processes goes on with the listing; a direct call
\* of Processes has returned.
AfterProcesses(f) ==
    IF f.op = "Submit" THEN NextCreatePC(f.app, 1)
    ELSE IF f.op = "Processes" THEN "done"
    ELSE "types"

\* Processes returning no process together with an error.
PartialProcessesNone(f) == <<>>

\* Processes: the list it returns together with an error.
PartialProcesses(f) == f.processes

\* Submit and Remove: Processes returned an error.
ProcessesFailed(f, e) == Return([f EXCEPT !.processes = PartialProcesses(f)], e)

\* A Submit that goes on to the removals after its first CreateProcess.
CreateDoneThenRemove(f) ==
    IF f.op = "CreateProcess"
    THEN Finish([f EXCEPT !.k = f.k + 1])
    ELSE [f EXCEPT !.k = f.k + 1, !.pc = "diff"]

\* CreateProcess returned nil: Submit's loop takes the next process, a
\* direct call has returned.
CreateDone(f) ==
    IF f.op = "CreateProcess"
    THEN Finish([f EXCEPT !.k = f.k + 1])
    ELSE [f EXCEPT !.k = f.k + 1, !.pc = NextCreatePC(f.app, f.k + 1)]

\* A Submit that goes on with the next process after a failed CreateProcess.
CreateFailedContinue(f, e) == CreateDone(f)

\* Submit: CreateProcess returned an error.
CreateFailed(f, e) == Return(f, e)

\* Submit, Remove: RemoveProcess returned an error.
RemoveFailed(f, e) == Return(f, e)

\* A removal loop that stops after its first RemoveProcess.
NextRemoveOnce(f) == Finish([f EXCEPT !.toRemove = Tail(f.toRemove)])

\* RemoveProcess returned nil: the removal loop takes the next type.
NextRemove(f) ==
    LET rest == Tail(f.toRemove)
    IN  IF rest = <<>>
        THEN Finish([f EXCEPT !.toRemove = rest])
        ELSE [f EXCEPT !.toRemove = rest, !.pc = "scale"]

\* An updateService that never reports the service it has updated.
updateServiceNeverFound(e) ==
    IF noService(e)
    THEN [found |-> FALSE, err |-> NoErr]
    ELSE [found |-> FALSE, err |-> e]

\* updateService: what it returns for the backend's answer e.
updateService(e) ==
    IF noService(e)
    THEN [found |-> FALSE, err |-> NoErr]
    ELSE [found |-> e = NoErr, err |-> e]

CallSubmit(c, a) ==
    /\ frame[c].pc \in {"idle", "done"}
    /\ frame' = [frame EXCEPT ![c] =
          [NewFrame(frame[c]) EXCEPT !.op = "Submit", !.pc = "list", !.app = a,
                                     !.repeat = Repeats(frame[c], "Submit", a, "")]]
    /\ UNCHANGED <<tasks, services, taskDefs, faults, pure, elbs, lbf>>

CallRemove(c) ==
    /\ frame[c].pc \in {"idle", "done"}
    /\ frame' = [frame EXCEPT ![c] =
          [NewFrame(frame[c]) EXCEPT !.op = "Remove", !.pc = "list"]]
    /\ UNCHANGED <<tasks, services, taskDefs, faults, pure, elbs, lbf>>

CallRemoveProcess(c, t) ==
    /\ frame[c].pc \in {"idle", "done"}
    /\ frame' = [frame EXCEPT ![c] =
          [NewFrame(frame[c]) EXCEPT !.op = "RemoveProcess", !.pc = "scale", !.arg = t,
                                     !.toRemove = <<t>>,
                                     !.repeat = Repeats(frame[c], "RemoveProcess", <<>>, t)]]
    /\ UNCHANGED <<tasks, services, taskDefs, faults, pure, elbs, lbf>>

\* The processes the callers pass to CreateProcess: web without and with a
\* load balancer and a published port, and worker.
AttachProcs ==
    {Process("web", 1),
     [Process("web", 1) EXCEPT !.Ports = <<PortMap(80, 8080)>>, !.LoadBalancer = 1],
     Process("worker", 1)}

CallCreateProcess(c, p) ==
    /\ frame[c].pc \in {"idle", "done"}
    /\ frame' = [frame EXCEPT ![c] =
          [NewFrame(frame[c]) EXCEPT !.op = "CreateProcess", !.pc = "register",
                                     !.app = <<p>>, !.arg = p.Type]]
    /\ UNCHANGED <<tasks, services, taskDefs, faults, pure, elbs, lbf>>

CallProcesses(c) ==
    /\ frame[c].pc \in {"idle", "done"}
    /\ frame' = [frame EXCEPT ![c] =
          [NewFrame(frame[c]) EXCEPT !.op = "Processes", !.pc = "list"]]
    /\ UNCHANGED <<tasks, services, taskDefs, faults, pure, elbs, lbf>>

\* The error Run returns: fmt.Errorf with the attachment.
NotImplemented(attachment) ==
    PlainErr("running a " \o attachment \o " process is not implemented by the ECS manager.")

\* A Run that starts the detached process: it registers the task
\* definition and returns nil.
CallRunDetached(c, p, attached) ==
    LET attachment == IF attached THEN "attached" ELSE "detached"
    IN  /\ frame[c].pc \in {"idle", "done"}
        /\ frame' = [frame EXCEPT ![c] =
              [NewFrame(frame[c]) EXCEPT
                  !.op = "Run", !.pc = "done", !.app = <<p>>, !.arg = attachment,
                  !.ret = IF attached THEN NotImplemented(attachment) ELSE NoErr]]
        /\ taskDefs' = IF attached THEN taskDefs
                       ELSE [taskDefs EXCEPT ![p.Type] =
                               (CHOOSE td \in taskDefinitionInput(p) : TRUE).in]
        /\ UNCHANGED <<tasks, services, faults, pure, elbs, lbf>>

\* Run: out is nil for a detached process; the whole method is one step.
CallRun(c, p, attached) ==
    LET attachment == IF attached THEN "attached" ELSE "detached"
    IN  /\ frame[c].pc \in {"idle", "done"}
        /\ frame' = [frame EXCEPT ![c] =
              [NewFrame(frame[c]) EXCEPT
                  !.op = "Run", !.pc = "done", !.app = <<p>>, !.arg = attachment,
                  !.ret = NotImplemented(attachment)]]
        /\ UNCHANGED <<tasks, services, taskDefs, faults, pure, elbs, lbf>>

CallStop(c, instanceID) ==
    /\ frame[c].pc \in {"idle", "done"}
    /\ frame' = [frame EXCEPT ![c] =
          [NewFrame(frame[c]) EXCEPT !.op = "Stop", !.pc = "stop", !.arg = instanceID]]
    /\ UNCHANGED <<tasks, services, taskDefs, faults, pure, elbs, lbf>>

\* A Stop that also lowers the desired count of the first active service.
StopTaskAndScale(c) ==
    LET f == frame[c]
        g(e) == [f EXCEPT !.lastErr = e, !.calls = Append(@, Ev("StopTask", f.arg))]
    IN  /\ f.pc = "stop"
        /\ \E e \in {NoErr} \cup Transient :
              /\ frame' = [frame EXCEPT ![c] =
                    IF e # NoErr THEN Return(g(e), e) ELSE Finish(g(e))]
              /\ tasks' = IF e = NoErr THEN [tasks EXCEPT ![f.arg] = "STOPPED"] ELSE tasks
              /\ services' = IF e = NoErr /\ ListServices # <<>>
                             THEN ApplyUpdate(ListServices[1], 0, "")
                             ELSE services
        /\ UNCHANGED <<taskDefs, faults, pure, elbs, lbf>>

\* Stop: the StopTask call
StopTask(c) ==
    LET f == frame[c]
        g(e) == [f EXCEPT !.lastErr = e, !.calls = Append(@, Ev("StopTask", f.arg))]
    IN  /\ f.pc = "stop"
        /\ \E e \in {NoErr} \cup Transient :
              /\ frame' = [frame EXCEPT ![c] =
                    IF e # NoErr THEN Return(g(e), e) ELSE Finish(g(e))]
              /\ tasks' = IF e = NoErr THEN [tasks EXCEPT ![f.arg] = "STOPPED"] ELSE tasks
        /\ UNCHANGED <<services, taskDefs, faults, pure, elbs, lbf>>

CallScale(c, t, instances) ==
    /\ frame[c].pc \in {"idle", "done"}
    /\ frame' = [frame EXCEPT ![c] =
          [NewFrame(frame[c]) EXCEPT !.op = "Scale", !.pc = "scalesvc", !.arg = t,
                                     !.app = <<Process(t, instances)>>]]
    /\ UNCHANGED <<tasks, services, taskDefs, faults, pure, elbs, lbf>>

\* Scale: the UpdateAppService call, with DesiredCount and no TaskDefinition
ScaleService(c) ==
    LET f == frame[c]
        g(e) == [f EXCEPT !.lastErr = e, !.calls = Append(@, Ev("Scale", f.arg))]
    IN  /\ f.pc = "scalesvc"
        /\ \E e \in UpdateResponses(f.arg) :
              /\ frame' = [frame EXCEPT ![c] =
                    IF e # NoErr THEN Return(g(e), e) ELSE Finish(g(e))]
              /\ services' = IF e = NoErr
                             THEN ApplyUpdate(f.arg, f.app[1].Instances, "")
                             ELSE services
        /\ UNCHANGED <<tasks, taskDefs, faults, pure, elbs, lbf>>

\* Processes: ListAppServices
ListAppServices(c) ==
    LET f == frame[c]
        g(e) == [f EXCEPT !.lastErr = e,
                          !.calls = @ \o <<Ev("Processes", ""), Ev("ListAppServices", "")>>]
    IN  /\ f.pc = "list"
        /\ \E e \in {NoErr} \cup Transient :
              frame' = [frame EXCEPT ![c] =
                  IF e # NoErr THEN ProcessesFailed(g(e), e)
                  ELSE IF Len(ListServices) = 0
                       THEN [g(e) EXCEPT !.pc = AfterProcesses(f)]
                       ELSE [g(e) EXCEPT !.arns = ListServices, !.pc = "describe"]]
        /\ UNCHANGED <<tasks, services, taskDefs, faults, pure, elbs, lbf>>

\* Processes: DescribeServices
DescribeServices(c) ==
    LET f == frame[c]
        g(e) == [f EXCEPT !.lastErr = e, !.calls = Append(@, Ev("DescribeServices", ""))]
    IN  /\ f.pc = "describe"
        /\ \E e \in {NoErr} \cup Transient :
              frame' = [frame EXCEPT ![c] =
                  IF e # NoErr THEN ProcessesFailed(g(e), e)
                  ELSE [g(e) EXCEPT !.desc = [i \in 1..Len(f.arns) |->
                                              [ServiceName |-> f.arns[i],
                                               TaskDefinition |-> services[f.arns[i]].taskDefinition]],
                                    !.k = 1, !.pc = "taskdef"]]
        /\ UNCHANGED <<tasks, services, taskDefs, faults, pure, elbs, lbf>>

\* Processes: one iteration of the loop over desc.Services
DescribeTaskDefinition(c) ==
    LET f == frame[c]
        s == f.desc[f.k]
        g(e) == [f EXCEPT !.lastErr = e,
                          !.calls = Append(@, Ev("DescribeTaskDefinition", s.ServiceName))]
        r == taskDefinitionToProcess(taskDefs[s.TaskDefinition])
        h(e) == [g(e) EXCEPT !.processes = Append(@, r.p)]
    IN  /\ f.pc = "taskdef"
        /\ \E e \in {NoErr} \cup Transient :
              frame' = [frame EXCEPT ![c] =
                  IF e # NoErr THEN ProcessesFailed(g(e), e)
                  ELSE IF r.err # NoErr THEN ProcessesFailed(g(e), r.err)
                  ELSE IF f.k < Len(f.desc)
                       THEN [h(e) EXCEPT !.k = f.k + 1]
                       ELSE [h(e) EXCEPT !.k = 1, !.pc = AfterProcesses(f)]]
        /\ UNCHANGED <<tasks, services, taskDefs, faults, pure, elbs, lbf>>

\* CreateProcess: createTaskDefinition
RegisterAppTaskDefinition(c) ==
    LET f == frame[c]
        p == f.app[f.k]
        g(e) == [f EXCEPT !.lastErr = e,
                          !.calls = @ \o <<Ev("CreateProcess", p.Type),
                                           Ev("RegisterAppTaskDefinition", p.Type)>>]
        h == [f EXCEPT !.calls = Append(@, Ev("CreateProcess", p.Type))]
    IN  /\ f.pc = "register"
        /\ \E td \in taskDefinitionInput(p) :
              IF td.err # NoErr
              THEN /\ frame' = [frame EXCEPT ![c] = CreateFailed(h, td.err)]
                   /\ taskDefs' = taskDefs
              ELSE \E e \in {NoErr} \cup Transient :
                      /\ frame' = [frame EXCEPT ![c] =
                            IF e # NoErr THEN CreateFailed(g(e), e)
                            ELSE [g(e) EXCEPT !.pc = "update"]]
                      /\ taskDefs' = IF e # NoErr THEN taskDefs
                                     ELSE [taskDefs EXCEPT ![td.in.Family] = td.in]
        /\ UNCHANGED <<tasks, services, faults, pure, elbs, lbf>>

\* CreateProcess: updateCreateService, the call of updateService
UpdateService(c) ==
    LET f == frame[c]
        p == f.app[f.k]
        g(e) == [f EXCEPT !.lastErr = e, !.calls = Append(@, Ev("UpdateAppService", p.Type))]
    IN  /\ f.pc = "update"
        /\ \E e \in UpdateResponses(p.Type) :
              LET u == updateService(e)
              IN  /\ frame' = [frame EXCEPT ![c] =
                        IF u.err # NoErr THEN CreateFailed(g(e), u.err)
                        ELSE IF u.found THEN CreateDone(g(e))
                        ELSE [g(e) EXCEPT !.pc = "createsvc"]]
                  /\ services' = IF e = NoErr
                                 THEN ApplyUpdate(p.Type, p.Instances, p.Type)
                                 ELSE services
        /\ UNCHANGED <<tasks, taskDefs, faults, pure, elbs, lbf>>

\* CreateProcess: updateCreateService, the call of createService
CreateService(c) ==
    LET f == frame[c]
        p == f.app[f.k]
        g(e) == [f EXCEPT !.lastErr = e, !.calls = Append(@, Ev("CreateAppService", p.Type))]
        attach == p.LoadBalancer # 0
        loadBalancers == IF attach
                         THEN <<[ContainerName |-> p.Type,
                                 ContainerPort |-> p.Ports[1].Container,
                                 LoadBalancerName |-> p.LoadBalancer]>>
                         ELSE <<>>
        role == IF attach THEN serviceRole ELSE ""
    IN  /\ f.pc = "createsvc"
        /\ \E e \in CreateResponses(p.Type) :
              /\ frame' = [frame EXCEPT ![c] =
                    IF e # NoErr THEN CreateFailed(g(e), e) ELSE CreateDone(g(e))]
              /\ services' = IF e = NoErr
                             THEN ApplyCreate(p.Type, p.Instances, p.Type,
                                              loadBalancers, role)
                             ELSE services
        /\ UNCHANGED <<tasks, taskDefs, faults, pure, elbs, lbf>>

\* Submit: toRemove := diffProcessTypes(processes, app.Processes)
Diff(c) ==
    LET f == frame[c]
    IN  /\ f.pc = "diff"
        /\ \E r \in diffProcessTypes(f.processes, f.app) :
              frame' = [frame EXCEPT ![c] =
                  IF r = <<>> THEN Finish([f EXCEPT !.toRemove = r])
                  ELSE [f EXCEPT !.toRemove = r, !.pc = "scale"]]
        /\ UNCHANGED <<tasks, services, taskDefs, faults, pure, elbs, lbf>>

\* Remove: the range over processTypes(processes), in map order
RangeTypes(c) ==
    LET f == frame[c]
    IN  /\ f.pc = "types"
        /\ \E r \in Perms(processTypes(f.processes)) :
              frame' = [frame EXCEPT ![c] =
                  IF r = <<>> THEN Finish([f EXCEPT !.toRemove = r])
                  ELSE [f EXCEPT !.toRemove = r, !.pc = "scale"]]
        /\ UNCHANGED <<tasks, services, taskDefs, faults, pure, elbs, lbf>>

\* A RemoveProcess that goes on to the delete call whatever Scale returned.
ScaleThenDelete(c) ==
    LET f == frame[c]
        t == Head(f.toRemove)
        g(e) == [f EXCEPT !.lastErr = e,
                          !.calls = @ \o <<Ev("RemoveProcess", t), Ev("Scale", t)>>]
    IN  /\ f.pc = "scale"
        /\ \E e \in UpdateResponses(t) :
              /\ frame' = [frame EXCEPT ![c] = [g(e) EXCEPT !.pc = "delete"]]
              /\ services' = IF e = NoErr THEN ApplyUpdate(t, 0, "") ELSE services
        /\ UNCHANGED <<tasks, taskDefs, faults, pure, elbs, lbf>>

\* RemoveProcess: Scale(app, process, 0)
Scale(c) ==
    LET f == frame[c]
        t == Head(f.toRemove)
        g(e) == [f EXCEPT !.lastErr = e,
                          !.calls = @ \o <<Ev("RemoveProcess", t), Ev("Scale", t)>>]
    IN  /\ f.pc = "scale"
        /\ \E e \in UpdateResponses(t) :
              /\ frame' = [frame EXCEPT ![c] =
                    IF noService(e) THEN NextRemove(g(e))
                    ELSE IF e # NoErr THEN RemoveFailed(g(e), e)
                    ELSE [g(e) EXCEPT !.pc = "delete"]]
              /\ services' = IF e = NoErr THEN ApplyUpdate(t, 0, "") ELSE services
        /\ UNCHANGED <<tasks, taskDefs, faults, pure, elbs, lbf>>

\* RemoveProcess returning whatever DeleteAppService returned.
DeleteAppServiceUnchecked(c) ==
    LET f == frame[c]
        t == Head(f.toRemove)
        g(e) == [f EXCEPT !.lastErr = e, !.calls = Append(@, Ev("DeleteAppService", t))]
    IN  /\ f.pc = "delete"
        /\ \E e \in DeleteResponses(t) :
              /\ frame' = [frame EXCEPT ![c] =
                    IF e # NoErr THEN RemoveFailed(g(e), e)
                    ELSE NextRemove(g(e))]
              /\ services' = IF e = NoErr THEN ApplyDelete(t) ELSE services
        /\ UNCHANGED <<tasks, taskDefs, faults, pure, elbs, lbf>>

\* RemoveProcess: DeleteAppService
DeleteAppService(c) ==
    LET f == frame[c]
        t == Head(f.toRemove)
        g(e) == [f EXCEPT !.lastErr = e, !.calls = Append(@, Ev("DeleteAppService", t))]
    IN  /\ f.pc = "delete"
        /\ \E e \in DeleteResponses(t) :
              /\ frame' = [frame EXCEPT ![c] =
                    IF noService(e) THEN NextRemove(g(e))
                    ELSE IF e # NoErr THEN RemoveFailed(g(e), e)
                    ELSE NextRemove(g(e))]
              /\ services' = IF e = NoErr THEN ApplyDelete(t) ELSE services
        /\ UNCHANGED <<tasks, taskDefs, faults, pure, elbs, lbf>>

Step(c) ==
    \/ \E a \in Apps : CallSubmit(c, a)
    \/ CallRemove(c)
    \/ \E t \in Types : CallRemoveProcess(c, t)
    \/ ListAppServices(c)
    \/ DescribeServices(c)
    \/ DescribeTaskDefinition(c)
    \/ RegisterAppTaskDefinition(c)
    \/ UpdateService(c)
    \/ CreateService(c)
    \/ Diff(c)
    \/ RangeTypes(c)
    \/ Scale(c)
    \/ DeleteAppService(c)

\* One caller at a time: no other caller touches the backend during a call.
Next == Step(1)

Spec == Init /\ [][Next]_vars

(***************************************************************************)
(* The methods of ecsProcessManager called directly, one caller            *)
(***************************************************************************)
StepPM(c) ==
    \/ \E p \in AttachProcs : CallCreateProcess(c, p)
    \/ CallProcesses(c)
    \/ \E t \in Types : CallRemoveProcess(c, t)
    \/ \E p \in AttachProcs, attached \in BOOLEAN : CallRun(c, p, attached)
    \/ \E i \in InstanceIDs : CallStop(c, i)
    \/ StopTask(c)
    \/ \E t \in Types, n \in 0..MaxInstances : CallScale(c, t, n)
    \/ ScaleService(c)
    \/ ListAppServices(c)
    \/ DescribeServices(c)
    \/ DescribeTaskDefinition(c)
    \/ RegisterAppTaskDefinition(c)
    \/ UpdateService(c)
    \/ CreateService(c)
    \/ Scale(c)
    \/ DeleteAppService(c)

NextPM == StepPM(1)

SpecPM == Init /\ [][NextPM]_vars

(***************************************************************************)
(* Two callers, interleaved at single backend calls                        *)
(***************************************************************************)
RaceApps == {<<Process("web", 1)>>, <<Process("worker", 1)>>}
RaceTypes == {"web"}

StepRace(c) ==
    \/ \E a \in RaceApps : frame[c].n < MaxCalls /\ CallSubmit(c, a)
    \/ \E t \in RaceTypes : frame[c].n < MaxCalls /\ CallRemoveProcess(c, t)
    \/ ListAppServices(c)
    \/ DescribeServices(c)
    \/ DescribeTaskDefinition(c)
    \/ RegisterAppTaskDefinition(c)
    \/ UpdateService(c)
    \/ CreateService(c)
    \/ Diff(c)
    \/ Scale(c)
    \/ DeleteAppService(c)

NextRace == \E c \in Callers : StepRace(c)

InitRace ==
    /\ services = [t \in Types |-> NoSvc]
    /\ taskDefs = [t \in Types |-> NoTaskDef]
    /\ faults = FALSE
    /\ frame = [c \in Callers |-> IdleFrame]
    /\ pure = NoPure
    /\ elbs = <<>>
    /\ lbf = IdleLB
    /\ tasks = AllRunning

SpecRace == InitRace /\ [][NextRace]_vars

(***************************************************************************)
(* diffProcessTypes as a function of its two lists                         *)
(***************************************************************************)
ProcLists == UNION {[1..n -> {Process(t, 0) : t \in Types}] : n \in 0..MaxLen}

InitDiff ==
    /\ services = [t \in Types |-> NoSvc]
    /\ taskDefs = [t \in Types |-> NoTaskDef]
    /\ faults = FALSE
    /\ frame = [c \in Callers |-> IdleFrame]
    /\ \E o \in ProcLists, n \in ProcLists :
          pure = [old |-> o, new |-> n, types |-> <<>>, done |-> FALSE]
    /\ elbs = <<>>
    /\ lbf = IdleLB
    /\ tasks = AllRunning

ApplyDiff ==
    /\ ~pure.done
    /\ \E r \in diffProcessTypes(pure.old, pure.new) :
          pure' = [pure EXCEPT !.types = r, !.done = TRUE]
    /\ UNCHANGED <<tasks, services, taskDefs, faults, frame, elbs, lbf>>

NextDiff == ApplyDiff

SpecDiff == InitDiff /\ [][NextDiff]_vars

(***************************************************************************)
(* taskDefinitionInput and taskDefinitionToProcess as functions: a Process *)
(* is converted to a task definition and back, repeatedly                  *)
(***************************************************************************)
MaxCmd == 4
MaxMB == 2
MaxRounds == 2

Chars == {"a", Space, Quote}
Commands == UNION {[1..n -> Chars] : n \in 0..MaxCmd}
MemoryLimits == UNION {{k * MB, k * MB + 1, k * MB + (MB - 1)} : k \in 0..MaxMB}
Envs == {[k \in {} |-> ""], ("A" :> "1"), ("A" :> "1") @@ ("B" :> "2")}
CPUs == {0, 1024}

ConvProcs ==
    {[Process("web", 1) EXCEPT !.Command = c, !.Env = e, !.CPUShares = s, !.MemoryLimit = m] :
        c \in Commands, e \in Envs, s \in CPUs, m \in MemoryLimits}

\* in: the Process given; first: the Process after the first round trip;
\* cur: the Process after the last one; rounds: the round trips made; err:
\* the error of a conversion.
InitConv ==
    /\ services = [t \in Types |-> NoSvc]
    /\ taskDefs = [t \in Types |-> NoTaskDef]
    /\ faults = FALSE
    /\ frame = [c \in Callers |-> IdleFrame]
    /\ \E p \in ConvProcs :
          pure = [in |-> p, first |-> p, cur |-> p, rounds |-> 0, err |-> NoErr]
    /\ elbs = <<>>
    /\ lbf = IdleLB
    /\ tasks = AllRunning

RoundTrip ==
    /\ pure.rounds < MaxRounds
    /\ pure.err = NoErr
    /\ \E td \in taskDefinitionInput(pure.cur) :
          IF td.err # NoErr
          THEN pure' = [pure EXCEPT !.err = td.err]
          ELSE LET r == taskDefinitionToProcess(td.in)
               IN  IF r.err # NoErr
                   THEN pure' = [pure EXCEPT !.err = r.err]
                   ELSE pure' = [pure EXCEPT !.cur = r.p,
                                             !.first = IF pure.rounds = 0 THEN r.p ELSE @,
                                             !.rounds = @ + 1]
    /\ UNCHANGED <<tasks, services, taskDefs, faults, frame, elbs, lbf>>

NextConv == RoundTrip

SpecConv == InitConv /\ [][NextConv]_vars

(***************************************************************************)
(* NewLoadBalancedScheduler as a function of its Config                    *)
(***************************************************************************)
Configs ==
    [Cluster : {"", "empire"}, ServiceRole : {"", "ecsServiceRole"}, VPC : {"", "vpc-1"},
     ZoneID : {"", "Z1"}, InternalSecurityGroupID : {"", "sg-internal"},
     ExternalSecurityGroupID : {"", "sg-external"},
     InternalSubnetIDs : {<<>>, <<"subnet-int">>},
     ExternalSubnetIDs : {<<>>, <<"subnet-ext">>}]

\* The closure r of validateLoadBalancedConfig.
Required(n) == PlainErr(n \o " is required")

\* validateLoadBalancedConfig without the test of ZoneID.
validateLoadBalancedConfigNoZone(c) ==
    IF c.Cluster = "" THEN Required("Cluster")
    ELSE IF c.ServiceRole = "" THEN Required("ServiceRole")
    ELSE IF c.InternalSecurityGroupID = "" THEN Required("InternalSecurityGroupID")
    ELSE IF c.ExternalSecurityGroupID = "" THEN Required("ExternalSecurityGroupID")
    ELSE IF Len(c.InternalSubnetIDs) = 0 THEN Required("InternalSubnetIDs")
    ELSE IF Len(c.ExternalSubnetIDs) = 0 THEN Required("ExternalSubnetIDs")
    ELSE NoErr

validateLoadBalancedConfig(c) ==
    IF c.Cluster = "" THEN Required("Cluster")
    ELSE IF c.ServiceRole = "" THEN Required("ServiceRole")
    ELSE IF c.ZoneID = "" THEN Required("ZoneID")
    ELSE IF c.InternalSecurityGroupID = "" THEN Required("InternalSecurityGroupID")
    ELSE IF c.ExternalSecurityGroupID = "" THEN Required("ExternalSecurityGroupID")
    ELSE IF Len(c.InternalSubnetIDs) = 0 THEN Required("InternalSubnetIDs")
    ELSE IF Len(c.ExternalSubnetIDs) = 0 THEN Required("ExternalSubnetIDs")
    ELSE NoErr

NoScheduler == [cluster |-> "", serviceRole |-> "", zoneID |-> "", lb |-> <<>>]

\* config: the argument; done: NewLoadBalancedScheduler has returned;
\* scheduler, err: what it returned; clients: the backend clients it
\* constructed; calls: the backend calls it made.
InitConfig ==
    /\ services = [t \in Types |-> NoSvc]
    /\ taskDefs = [t \in Types |-> NoTaskDef]
    /\ faults = FALSE
    /\ frame = [c \in Callers |-> IdleFrame]
    /\ \E c \in Configs :
          pure = [config |-> c, done |-> FALSE, scheduler |-> NoScheduler, err |-> NoErr,
                  clients |-> {}, calls |-> <<>>]
    /\ elbs = <<>>
    /\ lbf = IdleLB
    /\ tasks = AllRunning

NewLoadBalancedScheduler ==
    LET config == pure.config
        err == validateLoadBalancedConfig(config)
    IN  /\ ~pure.done
        /\ pure' = IF err # NoErr
                   THEN [pure EXCEPT !.done = TRUE, !.err = err]
                   ELSE [pure EXCEPT
                           !.done = TRUE,
                           !.clients = {"ecs", "elb", "route53"},
                           !.scheduler =
                               [cluster |-> config.Cluster,
                                serviceRole |-> config.ServiceRole,
                                zoneID |-> config.ZoneID,
                                lb |-> <<config.InternalSecurityGroupID,
                                         config.ExternalSecurityGroupID,
                                         config.InternalSubnetIDs,
                                         config.ExternalSubnetIDs>>]]
        /\ UNCHANGED <<tasks, services, taskDefs, faults, frame, elbs, lbf>>

NextConfig == NewLoadBalancedScheduler

SpecConfig == InitConfig /\ [][NextConfig]_vars

(***************************************************************************)
(* Operations of the ELB manager, one caller                               *)
(***************************************************************************)
CallCreateLoadBalancer(o) ==
    /\ lbf.pc \in {"idle", "done"}
    /\ Len(elbs) < MaxLBs
    /\ lbf' = [IdleLB EXCEPT !.op = "CreateLoadBalancer", !.pc = "create",
                             !.o = o, !.name = newName,
                             !.retry = /\ lbf.op = "CreateLoadBalancer"
                                       /\ lbf.failedAt = "attrs"
                                       /\ lbf.o = o]
    /\ UNCHANGED <<tasks, services, taskDefs, faults, frame, pure, elbs>>

\* CreateLoadBalancer: the elb.CreateLoadBalancer call
CreateLoadBalancer ==
    LET o == lbf.o
        scheme == IF o.External THEN schemeExternal ELSE schemeInternal
        sg == IF o.External THEN ExternalSecurityGroupID ELSE InternalSecurityGroupID
        subnets == IF o.External THEN ExternalSubnetIDs ELSE InternalSubnetIDs
    IN  /\ lbf.pc = "create"
        /\ \E e \in {NoErr} \cup Transient, tags \in elbTags(o.Tags) :
              IF e # NoErr
              THEN /\ lbf' = [lbf EXCEPT !.pc = "done", !.ret = e, !.failedAt = "create"]
                   /\ elbs' = elbs
              ELSE /\ elbs' = Append(elbs,
                        [LoadBalancerName |-> lbf.name,
                         DNSName |-> lbf.name,
                         ListenerDescriptions |-> elbListeners(o.InstancePort, o.SSLCert),
                         Scheme |-> scheme,
                         SecurityGroups |-> <<sg>>,
                         Subnets |-> subnets,
                         Tags |-> tags,
                         ConnectionDraining |-> [Enabled |-> FALSE, Timeout |-> 0],
                         CrossZoneLoadBalancing |-> FALSE])
                   /\ lbf' = [lbf EXCEPT !.pc = "attrs"]
        /\ UNCHANGED <<tasks, services, taskDefs, faults, frame, pure>>

\* ModifyLoadBalancerAttributes with a failed update answered like a
\* successful one.
ModifyLoadBalancerAttributesIgnored ==
    LET o == lbf.o
        i == CHOOSE j \in 1..Len(elbs) : elbs[j].LoadBalancerName = lbf.name
    IN  /\ lbf.pc = "attrs"
        /\ \E e \in {NoErr} \cup Transient :
              /\ elbs' = IF e # NoErr THEN elbs
                         ELSE [elbs EXCEPT ![i] =
                                 [@ EXCEPT !.ConnectionDraining =
                                               [Enabled |-> TRUE,
                                                Timeout |-> defaultConnectionDrainingTimeout],
                                           !.CrossZoneLoadBalancing = TRUE]]
              /\ lbf' = [lbf EXCEPT !.pc = "done", !.ret = NoErr,
                                    !.lb = [Name |-> lbf.name,
                                            DNSName |-> elbs[i].DNSName,
                                            External |-> o.External,
                                            SSLCert |-> o.SSLCert,
                                            InstancePort |-> o.InstancePort,
                                            Tags |-> EmptyTags]]
        /\ UNCHANGED <<tasks, services, taskDefs, faults, frame, pure>>

\* CreateLoadBalancer: the elb.ModifyLoadBalancerAttributes call
ModifyLoadBalancerAttributes ==
    LET o == lbf.o
        i == CHOOSE j \in 1..Len(elbs) : elbs[j].LoadBalancerName = lbf.name
    IN  /\ lbf.pc = "attrs"
        /\ \E e \in {NoErr} \cup Transient :
              IF e # NoErr
              THEN /\ lbf' = [lbf EXCEPT !.pc = "done", !.ret = e, !.failedAt = "attrs"]
                   /\ elbs' = elbs
              ELSE /\ elbs' = [elbs EXCEPT ![i] =
                        [@ EXCEPT !.ConnectionDraining =
                                      [Enabled |-> TRUE,
                                       Timeout |-> defaultConnectionDrainingTimeout],
                                  !.CrossZoneLoadBalancing = TRUE]]
                   /\ lbf' = [lbf EXCEPT !.pc = "done", !.ret = NoErr,
                                         !.lb = [Name |-> lbf.name,
                                                 DNSName |-> elbs[i].DNSName,
                                                 External |-> o.External,
                                                 SSLCert |-> o.SSLCert,
                                                 InstancePort |-> o.InstancePort,
                                                 Tags |-> EmptyTags]]
        /\ UNCHANGED <<tasks, services, taskDefs, faults, frame, pure>>

CallLoadBalancers(tags) ==
    /\ lbf.pc \in {"idle", "done"}
    /\ lbf' = [IdleLB EXCEPT !.op = "LoadBalancers", !.pc = "describe", !.tags = tags]
    /\ UNCHANGED <<tasks, services, taskDefs, faults, frame, pure, elbs>>

\* LoadBalancers: the elb.DescribeLoadBalancers call of one iteration
DescribeLoadBalancers ==
    /\ lbf.pc = "describe"
    /\ \E e \in {NoErr} \cup Transient, out \in Pages(lbf.nextMarker, PageSize) :
          lbf' = IF e # NoErr THEN ReturnLB(lbf, <<>>, e)
                 ELSE IF Len(out.LoadBalancerDescriptions) = 0
                      THEN [lbf EXCEPT !.out = out, !.pages = @ + 1, !.pc = "done", !.ret = NoErr]
                      ELSE [lbf EXCEPT !.out = out, !.pages = @ + 1, !.pc = "tags"]
    /\ UNCHANGED <<tasks, services, taskDefs, faults, frame, pure, elbs>>

\* The LoadBalancer built from a description and its tags.
LoadBalancerOf(d, tags) ==
    LET lds == d.ListenerDescriptions
        withCert == {i \in 1..Len(lds) : lds[i].SSLCertificateId # ""}
    IN  [Name |-> d.LoadBalancerName,
         DNSName |-> d.DNSName,
         External |-> d.Scheme = schemeExternal,
         SSLCert |-> IF withCert = {} THEN ""
                     ELSE lds[CHOOSE i \in withCert : \A j \in withCert : j <= i].SSLCertificateId,
         InstancePort |-> IF Len(lds) > 0 THEN lds[1].InstancePort ELSE 0,
         Tags |-> mapTags(tags)]

\* LoadBalancers: the elb.DescribeTags call and the rest of the iteration
DescribeTags ==
    LET descs == lbf.out.LoadBalancerDescriptions
        names == [i \in 1..Len(descs) |-> descs[i].LoadBalancerName]
        out2 == TagDescriptions(names)
        desc(n) == descs[CHOOSE i \in 1..Len(descs) : descs[i].LoadBalancerName = n]
        matching == SelectSeq(out2, LAMBDA d : containsTags(lbf.tags, d.Tags))
        found == [i \in 1..Len(matching) |->
                     LoadBalancerOf(desc(matching[i].LoadBalancerName), matching[i].Tags)]
        nextMarker == lbf.out.NextMarker
    IN  /\ lbf.pc = "tags"
        /\ \E e \in {NoErr} \cup Transient :
              lbf' = IF e # NoErr THEN ReturnLB(lbf, lbf.lbs, e)
                     ELSE IF nextMarker.nil \/ nextMarker.s = 0
                          THEN [lbf EXCEPT !.lbs = @ \o found, !.nextMarker = nextMarker,
                                           !.acc = @ \o found,
                                           !.pc = "done", !.ret = NoErr]
                          ELSE [lbf EXCEPT !.lbs = @ \o found, !.nextMarker = nextMarker,
                                           !.acc = @ \o found,
                                           !.pc = "describe"]
    /\ UNCHANGED <<tasks, services, taskDefs, faults, frame, pure, elbs>>

\* DestroyLoadBalancer: the elb.DeleteLoadBalancer call
DestroyLoadBalancer ==
    /\ lbf.pc = "delete"
    /\ \E e \in {NoErr} \cup Transient :
          /\ elbs' = IF e # NoErr THEN elbs
                     ELSE SelectSeq(elbs, LAMBDA d : d.LoadBalancerName # lbf.name)
          /\ lbf' = [lbf EXCEPT !.pc = "done", !.ret = e,
                                !.failedAt = IF e # NoErr THEN "delete" ELSE ""]
    /\ UNCHANGED <<tasks, services, taskDefs, faults, frame, pure>>

NextLB ==
    \/ \E o \in CreateOpts : CallCreateLoadBalancer(o)
    \/ CreateLoadBalancer
    \/ ModifyLoadBalancerAttributes
    \/ \E tags \in Filters : CallLoadBalancers(tags)
    \/ DescribeLoadBalancers
    \/ DescribeTags

InitLB ==
    /\ services = [t \in Types |-> NoSvc]
    /\ taskDefs = [t \in Types |-> NoTaskDef]
    /\ faults = TRUE
    /\ frame = [c \in Callers |-> IdleFrame]
    /\ pure = NoPure
    /\ elbs = <<>>
    /\ lbf = IdleLB
    /\ tasks = AllRunning

SpecLB == InitLB /\ [][NextLB]_vars

(***************************************************************************)
(* The load-balancer-aware process manager (LBProcessManager), which       *)
(* NewLoadBalancedScheduler puts around ecsProcessManager and the ELB      *)
(* manager.  frame[2] is the frame of its method, frame[1] the frame of    *)
(* the method of the embedded ProcessManager it delegates to, lbf the      *)
(* frame of the ELB manager's method it calls.                             *)
(***************************************************************************)
AppID == "acme"

\* The ownership tags of the load balancer of a process.
lbTags(app, process) == ("AppID" :> app) @@ ("ProcessType" :> process)

\* The declarations the callers pass: web without and with a published port.
LBDecls ==
    {Process("web", 1),
     [Process("web", 1) EXCEPT !.Ports = <<PortMap(80, 8080)>>]}

Quiet ==
    /\ frame[1].pc \in {"idle", "done"}
    /\ frame[2].pc \in {"idle", "done"}
    /\ lbf.pc \in {"idle", "done"}

\* The frames of the calls the decorator makes.
FindLoadBalancer(app, process) ==
    [IdleLB EXCEPT !.op = "LoadBalancers", !.pc = "describe", !.tags = lbTags(app, process)]

DelegateCreate(p) ==
    [NewFrame(frame[1]) EXCEPT !.op = "CreateProcess", !.pc = "register",
                               !.app = <<p>>, !.arg = p.Type]

DelegateRemove(t) ==
    [NewFrame(frame[1]) EXCEPT !.op = "RemoveProcess", !.pc = "scale", !.arg = t,
                               !.toRemove = <<t>>]

Destroy(lb) ==
    [IdleLB EXCEPT !.op = "DestroyLoadBalancer", !.pc = "delete", !.name = lb.Name]

\* LBProcessManager.CreateProcess: without a port it delegates at once,
\* with one it first looks for the load balancer of the process.
LBCreateProcess(p) ==
    /\ Quiet
    /\ IF p.Ports = <<>>
       THEN /\ frame' = [frame EXCEPT
                  ![2] = [NewFrame(@) EXCEPT !.op = "LBCreateProcess", !.pc = "delegate",
                                             !.app = <<p>>, !.arg = p.Type],
                  ![1] = DelegateCreate(p)]
            /\ lbf' = lbf
       ELSE /\ frame' = [frame EXCEPT
                  ![2] = [NewFrame(@) EXCEPT !.op = "LBCreateProcess", !.pc = "find",
                                             !.app = <<p>>, !.arg = p.Type]]
            /\ lbf' = FindLoadBalancer(AppID, p.Type)
    /\ UNCHANGED <<tasks, services, taskDefs, faults, pure, elbs>>

\* CreateProcess: the lookup returned; none found, it creates one.
LBFound ==
    LET f == frame[2]
        p == f.app[1]
        q == [p EXCEPT !.LoadBalancer = lbf.lbs[1].Name]
    IN  /\ f.op = "LBCreateProcess" /\ f.pc = "find" /\ lbf.pc = "done"
        /\ IF lbf.ret # NoErr
           THEN /\ frame' = [frame EXCEPT ![2] = Return(f, lbf.ret)]
                /\ lbf' = lbf
           ELSE IF lbf.lbs = <<>>
           THEN /\ Len(elbs) < MaxLBs
                /\ frame' = [frame EXCEPT ![2] = [f EXCEPT !.pc = "create"]]
                /\ lbf' = [IdleLB EXCEPT
                              !.op = "CreateLoadBalancer", !.pc = "create",
                              !.o = [External |-> FALSE, InstancePort |-> p.Ports[1].Host,
                                     SSLCert |-> "", Tags |-> lbTags(AppID, p.Type)],
                              !.name = newName]
           ELSE /\ frame' = [frame EXCEPT ![2] = [f EXCEPT !.app = <<q>>, !.pc = "delegate"],
                                          ![1] = DelegateCreate(q)]
                /\ lbf' = lbf
        /\ UNCHANGED <<tasks, services, taskDefs, faults, pure, elbs>>

\* CreateProcess: CreateLoadBalancer returned.
LBCreated ==
    LET f == frame[2]
        q == [f.app[1] EXCEPT !.LoadBalancer = lbf.lb.Name]
    IN  /\ f.op = "LBCreateProcess" /\ f.pc = "create" /\ lbf.pc = "done"
        /\ frame' = IF lbf.ret # NoErr
                    THEN [frame EXCEPT ![2] = Return(f, lbf.ret)]
                    ELSE [frame EXCEPT ![2] = [f EXCEPT !.app = <<q>>, !.pc = "delegate"],
                                       ![1] = DelegateCreate(q)]
        /\ UNCHANGED <<tasks, services, taskDefs, faults, pure, elbs, lbf>>

\* CreateProcess: the embedded CreateProcess returned.
LBDelegated ==
    LET f == frame[2]
    IN  /\ f.op = "LBCreateProcess" /\ f.pc = "delegate" /\ frame[1].pc = "done"
        /\ frame' = [frame EXCEPT ![2] =
              IF frame[1].ret # NoErr THEN Return(f, frame[1].ret) ELSE Finish(f)]
        /\ UNCHANGED <<tasks, services, taskDefs, faults, pure, elbs, lbf>>

\* LBProcessManager.RemoveProcess: it delegates first.
LBRemoveProcess(t) ==
    /\ Quiet
    /\ frame' = [frame EXCEPT
          ![2] = [NewFrame(@) EXCEPT !.op = "LBRemoveProcess", !.pc = "remove", !.arg = t],
          ![1] = DelegateRemove(t)]
    /\ UNCHANGED <<tasks, services, taskDefs, faults, pure, elbs, lbf>>

\* RemoveProcess: the embedded RemoveProcess returned; the lookup follows.
LBRemoved ==
    LET f == frame[2]
    IN  /\ f.op = "LBRemoveProcess" /\ f.pc = "remove" /\ frame[1].pc = "done"
        /\ IF frame[1].ret # NoErr
           THEN /\ frame' = [frame EXCEPT ![2] = Return(f, frame[1].ret)]
                /\ lbf' = lbf
           ELSE /\ frame' = [frame EXCEPT ![2] = [f EXCEPT !.pc = "lookup"]]
                /\ lbf' = FindLoadBalancer(AppID, f.arg)
        /\ UNCHANGED <<tasks, services, taskDefs, faults, pure, elbs>>

\* RemoveProcess: the lookup returned; every load balancer found is
\* destroyed, one DestroyLoadBalancer after the other.
LBLookedUp ==
    LET f == frame[2]
    IN  /\ f.op = "LBRemoveProcess" /\ f.pc = "lookup" /\ lbf.pc = "done"
        /\ IF lbf.ret # NoErr
           THEN /\ frame' = [frame EXCEPT ![2] = Return(f, lbf.ret)]
                /\ lbf' = lbf
           ELSE IF lbf.lbs = <<>>
           THEN /\ frame' = [frame EXCEPT ![2] = Finish(f)]
                /\ lbf' = lbf
           ELSE /\ frame' = [frame EXCEPT ![2] = [f EXCEPT !.pc = "destroy",
                                                           !.toRemove = Tail(lbf.lbs)]]
                /\ lbf' = Destroy(Head(lbf.lbs))
        /\ UNCHANGED <<tasks, services, taskDefs, faults, pure, elbs>>

\* RemoveProcess: a DestroyLoadBalancer returned.
LBDestroyed ==
    LET f == frame[2]
    IN  /\ f.op = "LBRemoveProcess" /\ f.pc = "destroy" /\ lbf.pc = "done"
        /\ IF lbf.ret # NoErr
           THEN /\ frame' = [frame EXCEPT ![2] = Return(f, lbf.ret)]
                /\ lbf' = lbf
           ELSE IF f.toRemove = <<>>
           THEN /\ frame' = [frame EXCEPT ![2] = Finish(f)]
                /\ lbf' = lbf
           ELSE /\ frame' = [frame EXCEPT ![2] = [f EXCEPT !.toRemove = Tail(@)]]
                /\ lbf' = Destroy(Head(f.toRemove))
        /\ UNCHANGED <<tasks, services, taskDefs, faults, pure, elbs>>

NextLBPM ==
    \/ \E p \in LBDecls : LBCreateProcess(p)
    \/ LBFound
    \/ LBCreated
    \/ LBDelegated
    \/ \E p \in LBDecls : LBRemoveProcess(p.Type)
    \/ LBRemoved
    \/ LBLookedUp
    \/ LBDestroyed
    \/ DescribeLoadBalancers
    \/ DescribeTags
    \/ CreateLoadBalancer
    \/ ModifyLoadBalancerAttributes
    \/ DestroyLoadBalancer
    \/ RegisterAppTaskDefinition(1)
    \/ UpdateService(1)
    \/ CreateService(1)
    \/ Scale(1)
    \/ DeleteAppService(1)

\* Every backend call succeeds unless the backend's state refuses it.
InitLBPM ==
    /\ services = [t \in Types |-> NoSvc]
    /\ taskDefs = [t \in Types |-> NoTaskDef]
    /\ faults = FALSE
    /\ frame = [c \in Callers |-> IdleFrame]
    /\ pure = NoPure
    /\ elbs = <<>>
    /\ lbf = IdleLB
    /\ tasks = AllRunning

SpecLBPM == InitLBPM /\ [][NextLBPM]_vars

(***************************************************************************)
(* Properties                                                              *)
(***************************************************************************)
\* The types Processes(app) returns in the current state of the backend.
ProcessesNow ==
    {taskDefinitionToProcess(taskDefs[services[t].taskDefinition]).p.Type : t \in ActiveTypes}

Declared(a) == {a[i].Type : i \in 1..Len(a)}

Issued(f, call) == {i \in 1..Len(f.calls) : f.calls[i].call = call}

Args(f, call) ==
    LET evs == SelectSeq(f.calls, LAMBDA ev : ev.call = call)
    IN  [i \in 1..Len(evs) |-> evs[i].arg]

LastCall(f) == IF f.calls = <<>> THEN "" ELSE f.calls[Len(f.calls)].call

Returned(f, op) == f.op = op /\ f.pc = "done"

Applied(p) ==
    /\ services[p.Type].status = "ACTIVE"
    /\ services[p.Type].desiredCount = p.Instances
    /\ services[p.Type].taskDefinition = p.Type

\* The last backend call of the frame failed with an error that is not one of
\* the "no such service" reports.
FailedIn(f, calls) ==
    /\ LastCall(f) \in calls
    /\ f.lastErr \notin {NoErr} \cup NotFoundErrs

\* C1: when Submit returns without error and no other caller touched the
\* backend meanwhile, Processes(app) returns exactly the declared types.
C1_SubmitConverges ==
    \A c \in Callers :
        (Returned(frame[c], "Submit") /\ frame[c].ret = NoErr)
            => ProcessesNow = Declared(frame[c].app)

\* A successful Submit that created one declared type and removed another.
C1_Witness ==
    /\ Returned(frame[1], "Submit")
    /\ frame[1].ret = NoErr
    /\ Declared(frame[1].app) \ frame[1].pre # {}
    /\ frame[1].pre \ Declared(frame[1].app) # {}
    /\ Declared(frame[1].app) \cap frame[1].pre # {}

\* C2: a Submit that repeats the immediately preceding, successful Submit
\* with the same declaration issues no RemoveProcess and leaves the set that
\* Processes(app) returns as it was before the call.
C2_ResubmitIsNoop ==
    \A c \in Callers :
        (frame[c].op = "Submit" /\ frame[c].repeat)
            => /\ Issued(frame[c], "RemoveProcess") = {}
               /\ ProcessesNow = frame[c].pre
               /\ frame[c].pre = Declared(frame[c].app)

\* A second Submit of the same two processes has returned without error.
C2_Witness ==
    /\ Returned(frame[1], "Submit")
    /\ frame[1].repeat
    /\ frame[1].ret = NoErr
    /\ Len(frame[1].app) = 2
    /\ Cardinality(Issued(frame[1], "UpdateAppService")) = 2

\* C3: when CreateProcess fails for the k-th declared process, Submit returns
\* that error, CreateProcess was issued for processes 1..k only, nothing was
\* removed, and the services of processes 1..k-1 are as applied.
C3_CreateFailureStops ==
    \A c \in Callers :
        LET f == frame[c]
        IN  (f.op = "Submit" /\ FailedIn(f, {"RegisterAppTaskDefinition", "UpdateAppService", "CreateAppService"}))
                => /\ f.pc = "done"
                   /\ f.ret = f.lastErr
                   /\ Args(f, "CreateProcess") = [i \in 1..f.k |-> f.app[i].Type]
                   /\ Issued(f, "RemoveProcess") = {}
                   /\ \A i \in 1..(f.k - 1) : Applied(f.app[i])

\* Submit failed at the service update of its second process, after it had
\* created the service of the first, with an undeclared type provisioned.
C3_Witness ==
    /\ Returned(frame[1], "Submit")
    /\ frame[1].failedAt = "update"
    /\ frame[1].k = 2
    /\ frame[1].app[1].Type \notin frame[1].pre
    /\ frame[1].pre \ Declared(frame[1].app) # {}

\* C4: RemoveProcess returns no error when the backend reports that there is
\* no such service, at the scale step or at the delete step, and otherwise
\* returns the backend's error; repeated for the same type it returns no
\* error again when the backend again answers with success or absence.
C4_RemoveAbsentIsSuccess ==
    \A c \in Callers :
        LET f == frame[c]
        IN  Returned(f, "RemoveProcess")
                => /\ LastCall(f) \in {"Scale", "DeleteAppService"}
                   /\ f.lastErr \in NotFoundErrs \cup {NoErr} => f.ret = NoErr
                   /\ f.lastErr \notin NotFoundErrs \cup {NoErr} => f.ret = f.lastErr

\* A RemoveProcess repeated for the same type learns at the delete step
\* that the service is gone, and returns no error.
C4_Witness ==
    /\ Returned(frame[1], "RemoveProcess")
    /\ frame[1].repeat
    /\ LastCall(frame[1]) = "DeleteAppService"
    /\ frame[1].lastErr \in NotFoundErrs
    /\ frame[1].ret = NoErr

\* C5: when Remove returns without error no process type of the app is
\* provisioned; when a RemoveProcess fails, Remove returns that error and the
\* types it has not yet processed are still provisioned.
C5_RemoveRemovesAll ==
    \A c \in Callers :
        LET f == frame[c]
        IN  /\ (Returned(f, "Remove") /\ f.ret = NoErr) => ProcessesNow = {}
            /\ (f.op = "Remove" /\ FailedIn(f, {"Scale", "DeleteAppService"}))
                  => /\ f.pc = "done"
                     /\ f.ret = f.lastErr
                     /\ Range(Tail(f.toRemove)) \subseteq ProcessesNow

\* Remove has removed three provisioned types and returned without error.
C5_Witness ==
    /\ Returned(frame[1], "Remove")
    /\ frame[1].ret = NoErr
    /\ Cardinality(frame[1].pre) = 3
    /\ Cardinality(Issued(frame[1], "DeleteAppService")) = 3

\* C6: diffProcessTypes(old, new) holds exactly the types that occur in old
\* and not in new, each once.
C6_DiffIsSetDifference ==
    pure.done =>
        /\ Range(pure.types) = Declared(pure.old) \ Declared(pure.new)
        /\ Len(pure.types) = Cardinality(Range(pure.types))

\* old = web, worker, clock and new = web, worker give exactly clock.
C6_Witness ==
    /\ pure.done
    /\ Declared(pure.old) = {"web", "worker", "clock"}
    /\ Declared(pure.new) = {"web", "worker"}
    /\ pure.types = <<"clock">>

\* C7: each of the four "no such service" reports makes RemoveProcess return
\* success and makes the update step of CreateProcess go on to the service
\* creation; any other error of the scale, delete or update call is returned
\* unchanged.
C7_NoServiceClassification ==
    \A c \in Callers :
        LET f == frame[c]
        IN  /\ (LastCall(f) = "UpdateAppService" /\ f.lastErr \in NotFoundErrs)
                  => f.pc = "createsvc"
            /\ f.pc = "createsvc" => f.lastErr \in NotFoundErrs
            /\ (LastCall(f) \in {"Scale", "DeleteAppService"} /\ f.lastErr \in NotFoundErrs)
                  => /\ f.failedAt = ""
                     /\ f.pc = "done" => f.ret = NoErr
            /\ FailedIn(f, {"Scale", "DeleteAppService", "UpdateAppService"})
                  => /\ f.pc = "done"
                     /\ f.ret = f.lastErr

\* The update step of CreateProcess got the CMServiceNotActiveException
\* report and is about to create the service.
C7_Witness ==
    /\ frame[1].pc = "createsvc"
    /\ frame[1].lastErr = AwsErr(MsgCMNotActive)

\* C8: two Submit calls that overlap, each with a listing that does not show
\* what only the other declares, both return success and leave the union of
\* the two declarations provisioned.
C8_RacingSubmitsUnion ==
    LET f == frame[1]
        g == frame[2]
    IN  (/\ f.n = 1 /\ Returned(f, "Submit") /\ f.ret = NoErr
         /\ g.n = 1 /\ Returned(g, "Submit") /\ g.ret = NoErr
         /\ processTypes(f.processes) \cap (Declared(g.app) \ Declared(f.app)) = {}
         /\ processTypes(g.processes) \cap (Declared(f.app) \ Declared(g.app)) = {})
            => ActiveTypes = Declared(f.app) \cup Declared(g.app)

\* Both Submit calls returned success and the provisioned types equal
\* neither declaration.
C8_Witness ==
    /\ frame[1].n = 1 /\ Returned(frame[1], "Submit") /\ frame[1].ret = NoErr
    /\ frame[2].n = 1 /\ Returned(frame[2], "Submit") /\ frame[2].ret = NoErr
    /\ frame[1].app # frame[2].app
    /\ ActiveTypes # Declared(frame[1].app)
    /\ ActiveTypes # Declared(frame[2].app)

\* The names of the load balancers of the backend whose tags hold every
\* key/value pair of the filter.
Matching(filter) ==
    {elbs[i].LoadBalancerName : i \in
        {j \in 1..Len(elbs) :
            \A k \in DOMAIN filter :
                \E x \in 1..Len(elbs[j].Tags) :
                    elbs[j].Tags[x].Key = k /\ elbs[j].Tags[x].Value = filter[k]}}

\* C9: when LoadBalancers(tagFilter) returns without error it returns
\* exactly the load balancers of the backend whose tags hold every pair of
\* the filter, each once; with the empty filter, all of them.
C9_LoadBalancersExact ==
    (lbf.op = "LoadBalancers" /\ lbf.pc = "done" /\ lbf.ret = NoErr)
        => /\ {lbf.lbs[i].Name : i \in 1..Len(lbf.lbs)} = Matching(lbf.tags)
           /\ Len(lbf.lbs) = Cardinality(Matching(lbf.tags))

\* C10: LoadBalancers passes on the marker of the previous page and, when
\* it returns without error, the last page it read carried an absent or
\* empty marker.
C10_PagesUntilNoMarker ==
    lbf.op = "LoadBalancers" =>
        /\ (lbf.pc = "describe" /\ lbf.pages > 0)
              => lbf.nextMarker = lbf.out.NextMarker
        /\ (lbf.pc = "done" /\ lbf.ret = NoErr)
              => lbf.out.NextMarker \in EndMarkers

\* The backend's record of the load balancer named n.
Backend(n) == elbs[CHOOSE i \in 1..Len(elbs) : elbs[i].LoadBalancerName = n]

Exists(n) == \E i \in 1..Len(elbs) : elbs[i].LoadBalancerName = n

\* C11: the listeners CreateLoadBalancer requests are an HTTP listener on
\* port 80 forwarding to the instance port and, if and only if the
\* certificate is non-empty, an HTTPS listener on port 443 with that
\* certificate forwarding to the instance port; no other listener.
C11_Listeners ==
    (lbf.op = "CreateLoadBalancer" /\ Exists(lbf.name))
        => LET ls == Backend(lbf.name).ListenerDescriptions
               on(port) == {i \in 1..Len(ls) : ls[i].LoadBalancerPort = port}
           IN  /\ Cardinality(on(80)) = 1
               /\ Cardinality(on(443)) = IF lbf.o.SSLCert # "" THEN 1 ELSE 0
               /\ Len(ls) = Cardinality(on(80)) + Cardinality(on(443))
               /\ \A i \in 1..Len(ls) : ls[i].InstancePort = lbf.o.InstancePort
               /\ \A i \in on(80) : ls[i].Protocol = "http" /\ ls[i].SSLCertificateId = ""
               /\ \A i \in on(443) : /\ ls[i].Protocol = "https"
                                     /\ ls[i].SSLCertificateId = lbf.o.SSLCert

\* A load balancer was created with a certificate and, earlier, one
\* without: the backend holds one with two listeners and one with one.
C11_Witness ==
    /\ lbf.op = "CreateLoadBalancer" /\ lbf.pc = "done" /\ lbf.ret = NoErr
    /\ lbf.o.SSLCert # ""
    /\ Len(Backend(lbf.name).ListenerDescriptions) = 2
    /\ \E i \in 1..Len(elbs) : Len(elbs[i].ListenerDescriptions) = 1

\* C12: CreateLoadBalancer updates the attributes after the create call;
\* when the create call succeeded and the update failed it returns the
\* error and no load balancer while the created load balancer stays in
\* the backend; it returns a load balancer only when both steps succeeded,
\* and then draining and cross-zone balancing are enabled.
C12_TwoSteps ==
    lbf.op = "CreateLoadBalancer" =>
        /\ lbf.pc = "attrs"
              => /\ Exists(lbf.name)
                 /\ ~Backend(lbf.name).ConnectionDraining.Enabled
                 /\ ~Backend(lbf.name).CrossZoneLoadBalancing
        /\ (lbf.pc = "done" /\ Exists(lbf.name)
                /\ ~Backend(lbf.name).ConnectionDraining.Enabled)
              => lbf.ret # NoErr /\ lbf.lb = NoLB
        /\ (lbf.pc = "done" /\ lbf.ret # NoErr) => lbf.lb = NoLB
        /\ (lbf.pc = "done" /\ lbf.ret = NoErr)
              => /\ lbf.lb # NoLB /\ lbf.lb.Name = lbf.name
                 /\ Exists(lbf.name)
                 /\ Backend(lbf.name).ConnectionDraining.Enabled
                 /\ Backend(lbf.name).ConnectionDraining.Timeout = 30
                 /\ Backend(lbf.name).CrossZoneLoadBalancing
        /\ (lbf.pc = "done" /\ lbf.failedAt = "attrs") => Exists(lbf.name)

\* The attribute update failed after the create call succeeded: the call
\* returned an error and the load balancer is in the backend.
C12_Witness ==
    /\ lbf.op = "CreateLoadBalancer" /\ lbf.pc = "done"
    /\ lbf.ret # NoErr /\ lbf.lb = NoLB
    /\ Exists(lbf.name)
    /\ ~Backend(lbf.name).ConnectionDraining.Enabled

\* The load balancers of the backend that carry exactly the tags.
Carrying(tags) == {i \in 1..Len(elbs) : mapTags(elbs[i].Tags) = tags}

\* C13: a CreateLoadBalancer that repeats, with the same tags, a creation
\* whose attribute update failed leaves at most one load balancer with
\* those tags in the backend.
C13_RetryNoDuplicate ==
    (lbf.op = "CreateLoadBalancer" /\ lbf.retry)
        => Cardinality(Carrying(lbf.o.Tags)) <= 1

\* C19: when a call of LoadBalancers fails on page k, LoadBalancers
\* returns the error and the matching load balancers of pages 1..k-1.
C19_PartialResults ==
    (lbf.op = "LoadBalancers" /\ lbf.pc = "done" /\ lbf.ret # NoErr)
        => lbf.lbs = lbf.acc

\* The attachment createService asks for.
Attachment(p) ==
    <<[ContainerName |-> p.Type, ContainerPort |-> p.Ports[1].Container,
       LoadBalancerName |-> p.LoadBalancer]>>

\* C14: after CreateProcess succeeds for a process whose LoadBalancer is
\* set, the service of its type is attached to that load balancer on the
\* process's first container port, whether or not the service existed
\* before the call.
C14_Attached ==
    \A c \in Callers :
        LET f == frame[c]
        IN  (Returned(f, "CreateProcess") /\ f.ret = NoErr /\ f.app[1].LoadBalancer # 0)
                => services[f.app[1].Type].loadBalancers = Attachment(f.app[1])

\* C18: when Processes fails at the task definition of the k-th service it
\* returns at once, with the error and the processes of services 1..k-1 in
\* listing order; when it succeeds it returns one process per service.
C18_PartialProcesses ==
    \A c \in Callers :
        LET f == frame[c]
        IN  f.op = "Processes" =>
              /\ (LastCall(f) = "DescribeTaskDefinition" /\ f.lastErr # NoErr)
                    => /\ f.pc = "done" /\ f.ret = f.lastErr
                       /\ Len(f.processes) = f.k - 1
                       /\ \A i \in 1..(f.k - 1) : f.processes[i].Type = f.arns[i]
                       /\ Cardinality(Issued(f, "DescribeTaskDefinition")) = f.k
              /\ (f.pc = "done" /\ f.ret = NoErr)
                    => /\ Len(f.processes) = Cardinality(f.pre)
                       /\ Len(f.arns) = Len(f.processes)
                       /\ \A i \in 1..Len(f.arns) : f.processes[i].Type = f.arns[i]
                       /\ Range(f.arns) = f.pre

\* Processes failed at the task definition of the second service and
\* returned the process of the first.
C18_Witness ==
    LET f == frame[1]
    IN  /\ Returned(f, "Processes") /\ f.ret # NoErr
        /\ LastCall(f) = "DescribeTaskDefinition"
        /\ f.k = 2 /\ Len(f.processes) = 1

\* C16: the round trip through a task definition leaves MemoryLimit
\* unchanged when it is a multiple of one megabyte and otherwise yields the
\* largest multiple of one megabyte below it; a second round trip changes
\* nothing.
C16_MemoryRoundTrip ==
    pure.rounds >= 1 =>
        LET m == pure.in.MemoryLimit
            r == pure.first.MemoryLimit
        IN  /\ r <= m
            /\ m - r < 1048576
            /\ \E k \in 0..(MaxMB + 1) : r = k * 1048576
            /\ (\E k \in 0..(MaxMB + 1) : m = k * 1048576) => r = m
            /\ pure.cur.MemoryLimit = r

\* A limit of one megabyte and one byte came back as one megabyte and
\* stayed so on the second round trip.
C16_Witness ==
    /\ pure.rounds = 2
    /\ pure.in.MemoryLimit = 1048577
    /\ pure.first.MemoryLimit = 1048576
    /\ pure.cur.MemoryLimit = 1048576

\* C17: the round trip through a task definition yields an equal Command,
\* an equal Env and equal CPUShares, for every Process.
C17_RoundTripEqual ==
    pure.rounds >= 1 =>
        /\ pure.first.Command = pure.in.Command
        /\ pure.first.Env = pure.in.Env
        /\ pure.first.CPUShares = pure.in.CPUShares

\* The required fields of the Config that are empty, by their place in
\* the order Cluster, ServiceRole, ZoneID, InternalSecurityGroupID,
\* ExternalSecurityGroupID, InternalSubnetIDs, ExternalSubnetIDs.
MissingFields(c) ==
    {i \in 1..7 :
        \/ i = 1 /\ c.Cluster = ""
        \/ i = 2 /\ c.ServiceRole = ""
        \/ i = 3 /\ c.ZoneID = ""
        \/ i = 4 /\ c.InternalSecurityGroupID = ""
        \/ i = 5 /\ c.ExternalSecurityGroupID = ""
        \/ i = 6 /\ c.InternalSubnetIDs = <<>>
        \/ i = 7 /\ c.ExternalSubnetIDs = <<>>}

FieldMessages ==
    <<"Cluster is required", "ServiceRole is required", "ZoneID is required",
      "InternalSecurityGroupID is required", "ExternalSecurityGroupID is required",
      "InternalSubnetIDs is required", "ExternalSubnetIDs is required">>

\* C20: NewLoadBalancedScheduler returns an error and no scheduler, having
\* constructed no client and made no backend call, if and only if one of
\* the seven required fields is empty; the error names the first missing
\* field.
C20_ConfigValidated ==
    pure.done =>
        LET missing == MissingFields(pure.config)
        IN  /\ pure.calls = <<>>
            /\ (pure.err # NoErr) <=> (missing # {})
            /\ missing # {}
                  => /\ pure.scheduler = NoScheduler
                     /\ pure.clients = {}
                     /\ pure.err.msg =
                            FieldMessages[CHOOSE i \in missing : \A j \in missing : i <= j]
            /\ missing = {} => pure.scheduler # NoScheduler

\* A Config without ZoneID and without ExternalSubnetIDs was refused for
\* its ZoneID.
C20_Witness ==
    /\ pure.done
    /\ MissingFields(pure.config) = {3, 7}
    /\ pure.err.msg = "ZoneID is required"
    /\ pure.scheduler = NoScheduler

\* C15: after a successful CreateProcess of the load-balancer-aware
\* process manager, the (app, process type) owns, by its tags, exactly one
\* load balancer if the process declares a port and none if it does not.
C15_OneLoadBalancer ==
    LET f == frame[2]
        owned == Matching(lbTags(AppID, f.arg))
    IN  (f.op = "LBCreateProcess" /\ f.pc = "done" /\ f.ret = NoErr)
            => Cardinality(owned) = IF f.app[1].Ports # <<>> THEN 1 ELSE 0

\* C21: Run returns the "not implemented" error, for an attached and for a
\* detached process alike, and issues no backend call: no step of Run
\* changes a task definition, a service, a task or a load balancer.
C21_RunNotImplemented ==
    /\ [](\A c \in Callers :
            frame[c].op = "Run"
                => /\ frame[c].pc = "done"
                   /\ frame[c].arg \in {"attached", "detached"}
                   /\ frame[c].arg = "attached" => frame[c].ret.msg =
                         "running a attached process is not implemented by the ECS manager."
                   /\ frame[c].arg = "detached" => frame[c].ret.msg =
                         "running a detached process is not implemented by the ECS manager."
                   /\ frame[c].calls = <<>>)
    /\ [][frame[1]'.op = "Run"
            => /\ services' = services /\ taskDefs' = taskDefs
               /\ tasks' = tasks /\ elbs' = elbs]_vars

\* Run returned for a detached process of a type that is provisioned.
C21_Witness ==
    /\ Returned(frame[1], "Run")
    /\ frame[1].arg = "detached"
    /\ frame[1].ret # NoErr
    /\ frame[1].app[1].Type \in ActiveTypes

\* C22: Stop issues one StopTask call, for its instance, and leaves every
\* service, every task definition and every other task as they were;
\* Scale(app, type, n) changes at most the desired count of the service of
\* that type.
C22_StopAndScaleFrames ==
    /\ [](\A c \in Callers :
            /\ Returned(frame[c], "Stop")
                  => frame[c].calls = <<Ev("StopTask", frame[c].arg)>>
            /\ (Returned(frame[c], "Scale") /\ frame[c].ret = NoErr)
                  => services[frame[c].arg].desiredCount = frame[c].app[1].Instances)
    /\ [][/\ frame[1]'.op = "Stop"
                => /\ services' = services /\ taskDefs' = taskDefs /\ elbs' = elbs
                   /\ \A i \in InstanceIDs : i # frame[1]'.arg => tasks'[i] = tasks[i]
          /\ frame[1]'.op = "Scale"
                => /\ taskDefs' = taskDefs /\ tasks' = tasks /\ elbs' = elbs
                   /\ \A t \in Types :
                         /\ t # frame[1]'.arg => services'[t] = services[t]
                         /\ services'[t].status = services[t].status
                         /\ services'[t].taskDefinition = services[t].taskDefinition
                         /\ services'[t].loadBalancers = services[t].loadBalancers
                         /\ services'[t].role = services[t].role]_vars

\* Scale has raised the desired count of web to two, after a Stop had
\* stopped a task while web was provisioned with one instance.
C22_Witness ==
    /\ Returned(frame[1], "Scale") /\ frame[1].ret = NoErr
    /\ frame[1].arg = "web"
    /\ services["web"].desiredCount = 2
    /\ services["web"].taskDefinition = "web"
    /\ \E i \in InstanceIDs : tasks[i] = "STOPPED"

\* The phase of Submit a call belongs to: listing, creation, removal.
Phase(call) ==
    IF call \in {"Processes", "ListAppServices", "DescribeServices", "DescribeTaskDefinition"}
    THEN 1
    ELSE IF call \in {"CreateProcess", "RegisterAppTaskDefinition", "UpdateAppService",
                      "CreateAppService"}
    THEN 2
    ELSE 3

\* C23: the calls of one Submit are ordered: the listing, then CreateProcess
\* for the declared processes in declaration order, then RemoveProcess for
\* orphaned types; no CreateProcess after a failed listing, no
\* RemoveProcess unless every CreateProcess succeeded, and the types
\* removed are those of the listing that are not declared.
C23_SubmitOrder ==
    \A c \in Callers :
        LET f == frame[c]
            created == Args(f, "CreateProcess")
            removed == Args(f, "RemoveProcess")
        IN  f.op = "Submit" =>
              /\ \A i, j \in 1..Len(f.calls) :
                    i < j => Phase(f.calls[i].call) <= Phase(f.calls[j].call)
              /\ f.calls # <<>> => f.calls[1].call = "Processes"
              /\ Len(created) <= Len(f.app)
              /\ \A i \in 1..Len(created) : created[i] = f.app[i].Type
              /\ (Phase(LastCall(f)) = 1 /\ f.lastErr # NoErr)
                    => f.pc = "done" /\ f.ret = f.lastErr /\ created = <<>>
              /\ created # <<>> => processTypes(f.processes) = f.pre
              /\ removed # <<>>
                    => /\ Len(created) = Len(f.app)
                       /\ \A i \in 1..Len(f.app) : Applied(f.app[i])
              /\ Range(removed) \subseteq processTypes(f.processes) \ Declared(f.app)
              /\ Len(removed) = Cardinality(Range(removed))
              /\ (f.pc = "done" /\ f.ret = NoErr)
                    => Range(removed) = f.pre \ Declared(f.app)

\* A Submit of two processes listed two provisioned types, created or
\* updated both declared ones and removed an orphaned one.
C23_Witness ==
    /\ Returned(frame[1], "Submit") /\ frame[1].ret = NoErr
    /\ Len(frame[1].app) = 2
    /\ Cardinality(Issued(frame[1], "DescribeTaskDefinition")) = 2
    /\ Cardinality(Issued(frame[1], "CreateProcess")) = 2
    /\ Cardinality(Issued(frame[1], "RemoveProcess")) = 1

\* The calls of a CreateProcess that runs to its end on the create path.
CreateProcessCalls(t) ==
    <<Ev("CreateProcess", t), Ev("RegisterAppTaskDefinition", t),
      Ev("UpdateAppService", t), Ev("CreateAppService", t)>>

\* C24: CreateProcess registers the task definition first and issues no
\* service call when that fails; it then updates the service and issues
\* the create call only after the update reported that there is no such
\* service; after a successful CreateProcess the service of the type is
\* active with the desired count process.Instances.
C24_CreateProcessOrder ==
    \A c \in Callers :
        LET f == frame[c]
            p == f.app[1]
        IN  f.op = "CreateProcess" =>
              /\ Len(f.calls) <= 4
              /\ f.calls = SubSeq(CreateProcessCalls(p.Type), 1, Len(f.calls))
              /\ (LastCall(f) = "RegisterAppTaskDefinition" /\ f.lastErr # NoErr)
                    => f.pc = "done" /\ f.ret = f.lastErr
              /\ Issued(f, "UpdateAppService") # {}
                    => taskDefs[p.Type].Family = p.Type
              /\ f.pc = "update" => (LastCall(f) = "RegisterAppTaskDefinition"
                                       /\ f.lastErr = NoErr)
              /\ f.pc = "createsvc" => (LastCall(f) = "UpdateAppService"
                                          /\ f.lastErr \in NotFoundErrs)
              /\ Issued(f, "CreateAppService") # {} => p.Type \notin f.pre
              /\ (LastCall(f) = "UpdateAppService" /\ f.lastErr = NoErr)
                    => f.pc = "done" /\ p.Type \in f.pre
              /\ (f.pc = "done" /\ f.ret = NoErr)
                    => /\ LastCall(f) \in {"UpdateAppService", "CreateAppService"}
                       /\ services[p.Type].status = "ACTIVE"
                       /\ services[p.Type].desiredCount = p.Instances
                       /\ services[p.Type].taskDefinition = p.Type

\* A CreateProcess registered, got a not-found report from the update,
\* created the service and returned without error, while the service of
\* another type had been deleted.
C24_Witness ==
    /\ Returned(frame[1], "CreateProcess") /\ frame[1].ret = NoErr
    /\ frame[1].calls = CreateProcessCalls("web")
    /\ services["worker"].status = "INACTIVE"

\* C25: RemoveProcess issues the delete call only after the scale-to-zero
\* call has succeeded: when Scale fails, with a not-found report or
\* another error, no delete call is made; when RemoveProcess returns
\* without error the service of the type is not provisioned.
C25_ScaleBeforeDelete ==
    \A c \in Callers :
        LET f == frame[c]
            t == f.arg
        IN  f.op = "RemoveProcess" =>
              /\ f.calls = SubSeq(<<Ev("RemoveProcess", t), Ev("Scale", t),
                                    Ev("DeleteAppService", t)>>, 1, Len(f.calls))
              /\ f.pc = "delete" => /\ LastCall(f) = "Scale" /\ f.lastErr = NoErr
                                    /\ services[t].desiredCount = 0
              /\ (LastCall(f) = "Scale" /\ f.lastErr # NoErr)
                    => f.pc = "done" /\ Issued(f, "DeleteAppService") = {}
              /\ Issued(f, "DeleteAppService") # {}
                    => t \in f.pre /\ services[t].desiredCount = 0
              /\ (f.pc = "done" /\ f.ret = NoErr) => t \notin ActiveTypes

\* A RemoveProcess scaled a provisioned service to zero, deleted it and
\* returned without error.
C25_Witness ==
    /\ Returned(frame[1], "RemoveProcess") /\ frame[1].ret = NoErr
    /\ LastCall(frame[1]) = "DeleteAppService" /\ frame[1].lastErr = NoErr
    /\ frame[1].arg \in frame[1].pre
    /\ services[frame[1].arg].status = "INACTIVE"

====
